---- MODULE Spec2Model ----
(***************************************************************************)
(* Model of portfolio-simulator.py: a Portfolio replays two time-stamped   *)
(* feeds (fills, prices) against a simulated Clock.  The fill loop         *)
(* (_fill_update) runs in a background thread and updates holdings and     *)
(* cash; the price loop (get_price_update) runs in the main thread,        *)
(* records the last price and prints a PNL line per price update of a held *)
(* symbol.  Both loops pull their records through get_feed.                *)
(*                                                                         *)
(* Real time is counted in whole seconds since the Clock was made, clock   *)
(* time and timestamps in whole seconds after the Clock's epoch; money and  *)
(* sizes are integers.                                                     *)
(***************************************************************************)
EXTENDS Integers, Sequences, FiniteSets, TLC

\* ---------------------------------------------------------------- bounds
MaxFills == 2
MaxPrices == 2
MaxElapsed == 20

\* ---------------------------------------------------------------- constants
\* one_hr_as_sec: the default, and what __main__ and test_portfolio pass
DefaultOneHrAsSec == 720
MainOneHrAsSec == 3600
TestOneHrAsSec == 18000

\* ---------------------------------------------------------------- inputs
Symbols == {"A", "B"}

\* symbol, price, size, side of the fills the feeds are built from
FillKinds ==
    { [symbol |-> "A", price |-> 3, size |-> 2, side |-> "B"],
      [symbol |-> "A", price |-> 3, size |-> 2, side |-> "S"],
      [symbol |-> "B", price |-> 2, size |-> 1, side |-> "B"] }

\* symbol, price of the price updates the feeds are built from
PriceKinds == { [symbol |-> "A", price |-> 5] }

\* the smaller families used where only the order of the steps matters; the
\* fills of ErrFillKinds include one whose side is not a key of _side_to_sign
ErrFillKinds ==
    { [symbol |-> "A", price |-> 3, size |-> 2, side |-> "B"],
      [symbol |-> "A", price |-> 3, size |-> 2, side |-> "X"] }
LiveFillKinds == { [symbol |-> "A", price |-> 3, size |-> 2, side |-> "B"] }
LivePriceKinds == { [symbol |-> "A", price |-> 5] }

\* a row is due when the clock starts, or later
Timestamps == {0, 1}

\* the time at which every row is due
LastTimestamp == CHOOSE t \in Timestamps : \A u \in Timestamps : u <= t

FillRows(kinds) ==
    { [timestamp |-> t, symbol |-> k.symbol, price |-> k.price,
       size |-> k.size, side |-> k.side] : t \in Timestamps, k \in kinds }

PriceRows(kinds) ==
    { [timestamp |-> t, symbol |-> k.symbol, price |-> k.price] :
        t \in Timestamps, k \in kinds }

\* the feeds are pre-sorted by timestamp (fills.gz, prices.gz)
SortedFeeds(rows, maxLen) ==
    UNION { { s \in [1..n -> rows] :
                \A i \in 1..(n - 1) : s[i].timestamp <= s[i + 1].timestamp } :
            n \in 0..maxLen }

NoRow == [timestamp |-> 0, symbol |-> "A", price |-> 0]

\* ---------------------------------------------------------------- state
VARIABLES
    now,                      \* Clock.time()
    elapsed,                  \* time.time() - Clock._time_start
    one_hr_as_sec,            \* Clock._one_hr_as_sec
    is_test,                  \* Portfolio._is_test
    fills_records,            \* Portfolio._fills_records (what is left of it)
    prices_records,           \* Portfolio._prices_records (what is left of it)
    fills_input,              \* the fills feed as given to the constructor
    prices_input,             \* the prices feed as given to the constructor
    cash,                     \* Portfolio._cash
    holdings,                 \* Portfolio._holdings
    prices,                   \* Portfolio._prices
    is_stopped_fill_update,   \* Portfolio._is_stopped_fill_update
    lock,                     \* Portfolio.lock: "free", "fill" or "main"
    fpc,                      \* position of the thread running _fill_update
    frow,                     \* row of _fill_update / of its get_feed call
    mpc,                      \* position of the main thread
    prow,                     \* row of get_price_update / of its get_feed call
    out,                      \* lines printed to standard output
    fills_delivered,          \* rows get_feed has returned to _fill_update
    prices_delivered,         \* rows get_feed has returned to get_price_update
    price_checks,             \* per price row: what line 184 saw under the lock
    report,                   \* values of get_cash, get_mtm, get_pnl at line 226
    stop_applied              \* fills fully applied when the stop flag was raised

vars == << now, elapsed, one_hr_as_sec, is_test, fills_records, prices_records, fills_input,
           prices_input, cash, holdings, prices, is_stopped_fill_update, lock,
           fpc, frow, mpc, prow, out, fills_delivered, prices_delivered,
           price_checks, report, stop_applied >>

clockVars == << now, elapsed, one_hr_as_sec >>
feedVars == << fills_records, prices_records, fills_input, prices_input >>
portfolioVars == << cash, holdings, prices >>
fillLocal == << fpc, frow, fills_delivered >>
mainLocal == << mpc, prow, prices_delivered, price_checks, report >>

\* ---------------------------------------------------------------- helpers
\* Clock.time(), in seconds after the epoch 2014-01-01 00:00:00:
\* pd.Timedelta(time.time() - self._time_start, unit='s') * self._one_hr_as_sec
ClockTime(e, k) == e * k

\* the keys of self._side_to_sign
Sides == {"B", "S"}

side_to_sign(side) == IF side = "B" THEN 1 ELSE -1

\* a get_feed that returns the popped row without looking at the clock
EligibleNoGate(row, t) == TRUE

\* row['timestamp'] <= clock.time()
Eligible(row, t) == row.timestamp <= t

\* a get_feed that pops from the wrong end: feed.pop()
PopRowLast(feed) == feed[Len(feed)]

\* feed.pop(0): the row that is removed and what is left
PopRow(feed) == Head(feed)
PopRest(feed) == Tail(feed)

\* a fill loop that deletes the key of a position that has become flat
HoldingsUpdateDrop(h, row) ==
    LET d == row.size * side_to_sign(row.side)
        n == IF row.symbol \in DOMAIN h THEN h[row.symbol] + d ELSE d
    IN  IF n = 0
        THEN [s \in DOMAIN h \ {row.symbol} |-> h[s]]
        ELSE [s \in DOMAIN h \cup {row.symbol} |->
                IF s = row.symbol THEN n ELSE h[s]]

\* self._holdings after the if/else of lines 119-124
HoldingsUpdate(h, row) ==
    LET d == row.size * side_to_sign(row.side)
    IN  IF row.symbol \notin DOMAIN h
        THEN [s \in DOMAIN h \cup {row.symbol} |->
                IF s = row.symbol THEN d ELSE h[s]]
        ELSE [h EXCEPT ![row.symbol] = @ + d]

\* a fill loop that adds the cost of a buy to the cash
CashUpdateAdd(c, row) == c + row.size * row.price * side_to_sign(row.side)

\* self._cash after lines 125-126
CashUpdate(c, row) == c - row.size * row.price * side_to_sign(row.side)

\* a price loop that does not keep the price of the row
PricesUpdateNone(p, row) == p

\* self._prices after line 180
PricesUpdate(p, row) ==
    [s \in DOMAIN p \cup {row.symbol} |->
        IF s = row.symbol THEN row.price ELSE p[s]]

\* a conversion that forgets the factor 1000 and prints seconds
TimestampSeconds(ts) == ts

\* int((row['timestamp'] - datetime(1970,1,1)).total_seconds() * 1000)
TimestampMillis(ts) == ts * 1000

RECURSIVE SumProducts(_, _, _)
SumProducts(keys, h, p) ==
    IF keys = {} THEN 0
    ELSE LET k == CHOOSE x \in keys : TRUE
         IN  p[k] * h[k] + SumProducts(keys \ {k}, h, p)

\* a get_mtm whose except branch prints nothing
get_mtm_silent(h, p) ==
    [warning |-> FALSE,
     value |-> SumProducts({key \in DOMAIN h : key \in DOMAIN p}, h, p)]

\* get_mtm: the sum over all holdings, or after a KeyError the warning and
\* the sum over the holdings that have a price
get_mtm(h, p) ==
    IF \A key \in DOMAIN h : key \in DOMAIN p
    THEN [warning |-> FALSE, value |-> SumProducts(DOMAIN h, h, p)]
    ELSE [warning |-> TRUE,
          value |-> SumProducts({key \in DOMAIN h : key \in DOMAIN p}, h, p)]

get_cash == cash

\* get_pnl: get_cash() + get_mtm()
get_pnl(h, p) ==
    LET m == get_mtm(h, p)
    IN  [warning |-> m.warning, value |-> get_cash + m.value]

WarningLine == [tag |-> "WARNING"]

PnlLine(ts, symbol, size, pnl) ==
    [tag |-> "PNL", timestamp |-> ts, symbol |-> symbol, size |-> size,
     pnl |-> pnl]

\* ---------------------------------------------------------------- Init
\* Portfolio.__init__ on feeds built from the given kinds
InitPortfolio(fillKinds, priceKinds) ==
    /\ is_test \in BOOLEAN
    /\ fills_input \in SortedFeeds(FillRows(fillKinds), MaxFills)
    /\ prices_input \in SortedFeeds(PriceRows(priceKinds), MaxPrices)
    /\ fills_records = fills_input
    /\ prices_records = prices_input
    /\ cash = 0
    /\ holdings = << >>
    /\ prices = << >>
    /\ is_stopped_fill_update = TRUE
    /\ lock = "free"
    /\ fpc = "idle"
    /\ frow = NoRow
    /\ mpc = "start"
    /\ prow = NoRow
    /\ out = << >>
    /\ fills_delivered = << >>
    /\ prices_delivered = << >>
    /\ price_checks = << >>
    /\ report = << >>
    /\ stop_applied = -1

\* Clock.__init__ with the one_hr_as_sec of line 219 (test_portfolio) or of
\* line 253 (__main__), then Portfolio.__init__
InitWith(fillKinds, priceKinds) ==
    /\ InitPortfolio(fillKinds, priceKinds)
    /\ elapsed = 0
    /\ one_hr_as_sec = IF is_test THEN TestOneHrAsSec ELSE MainOneHrAsSec
    /\ now = ClockTime(elapsed, one_hr_as_sec)

Init == InitWith(FillKinds, PriceKinds)

LiveInit == InitWith(LiveFillKinds, LivePriceKinds)

\* ---------------------------------------------------------------- clock
\* one more second of real time: Clock.time() grows by one_hr_as_sec
ClockAdvance ==
    /\ elapsed' = elapsed + 1
    /\ now' = ClockTime(elapsed', one_hr_as_sec)
    /\ UNCHANGED one_hr_as_sec

\* real time passes while the loops run; the model stops the clock once every
\* row of the feeds is due
Tick ==
    /\ now < LastTimestamp
    /\ ClockAdvance
    /\ UNCHANGED << is_test, feedVars, portfolioVars, is_stopped_fill_update,
                    lock, fillLocal, mainLocal, out, stop_applied >>

\* ---------------------------------------------------------------- _fill_update
\* A step that touches only data of its own thread is taken together with the
\* step before it: the pop of get_feed with the flag test, the entry into the
\* with block with the first statement in it.

\* a fill loop that does not look at the stop flag
fill_check_no_flag ==
    /\ fpc = "check"
    /\ IF fills_records = << >>
       THEN /\ fpc' = IF is_test THEN "done" ELSE "sleep"
            /\ UNCHANGED << fills_records, frow >>
       ELSE /\ frow' = PopRow(fills_records)
            /\ fills_records' = PopRest(fills_records)
            /\ fpc' = "wait"
    /\ UNCHANGED << clockVars, is_test, prices_records, fills_input, prices_input,
                    portfolioVars, is_stopped_fill_update, lock,
                    fills_delivered, mainLocal, out, stop_applied >>

\* lines 103-116 with get_feed lines 41-44: the stop flag is read at the top
\* of every iteration; then get_feed raises IOError on an empty feed (break
\* in test mode, sleep otherwise) or pops the front row
fill_check ==
    /\ fpc = "check"
    /\ IF is_stopped_fill_update
       THEN /\ fpc' = "done"
            /\ UNCHANGED << fills_records, frow >>
       ELSE IF fills_records = << >>
       THEN /\ fpc' = IF is_test THEN "done" ELSE "sleep"
            /\ UNCHANGED << fills_records, frow >>
       ELSE /\ frow' = PopRow(fills_records)
            /\ fills_records' = PopRest(fills_records)
            /\ fpc' = "wait"
    /\ UNCHANGED << clockVars, is_test, prices_records, fills_input, prices_input,
                    portfolioVars, is_stopped_fill_update, lock,
                    fills_delivered, mainLocal, out, stop_applied >>

\* get_feed lines 45-47: the loop spins on the popped row until the clock
\* has reached its timestamp, then returns it
fill_wait ==
    /\ fpc = "wait"
    /\ Eligible(frow, now)
    /\ fills_delivered' = Append(fills_delivered, frow)
    /\ fpc' = "lock"
    /\ UNCHANGED << clockVars, is_test, feedVars, portfolioVars,
                    is_stopped_fill_update, lock, frow, mainLocal, out,
                    stop_applied >>

\* a fill loop that gives up after the back-off instead of retrying
fill_sleep_gives_up ==
    /\ fpc = "sleep"
    /\ fpc' = "done"
    /\ UNCHANGED << clockVars, is_test, feedVars, portfolioVars,
                    is_stopped_fill_update, lock, frow, fills_delivered,
                    mainLocal, out, stop_applied >>

\* lines 112-114: time.sleep(5); continue
fill_sleep ==
    /\ fpc = "sleep"
    /\ fpc' = "check"
    /\ UNCHANGED << clockVars, is_test, feedVars, portfolioVars,
                    is_stopped_fill_update, lock, frow, fills_delivered,
                    mainLocal, out, stop_applied >>

\* a with block that does not wait for the lock
LockIgnored == TRUE

\* whether line 118 (fill loop) or line 183 (price loop) may enter
LockFree == lock = "free"

\* a fill loop that takes the lock without a with block: after the KeyError
\* nothing releases it
fill_holdings_keeps_lock ==
    /\ fpc = "lock"
    /\ LockFree
    /\ lock' = "fill"
    /\ IF frow.side \in Sides
       THEN /\ holdings' = HoldingsUpdate(holdings, frow)
            /\ fpc' = "cash"
       ELSE /\ fpc' = "error"
            /\ UNCHANGED holdings
    /\ UNCHANGED << clockVars, is_test, feedVars, cash, prices,
                    is_stopped_fill_update, frow, fills_delivered, mainLocal,
                    out, stop_applied >>

\* line 118 and lines 119-124: the lock is taken and the holdings are
\* updated; self._side_to_sign[row['side']] raises KeyError for a side that
\* is not a key, the with block releases the lock and the thread dies
fill_holdings ==
    /\ fpc = "lock"
    /\ LockFree
    /\ IF frow.side \in Sides
       THEN /\ lock' = "fill"
            /\ holdings' = HoldingsUpdate(holdings, frow)
            /\ fpc' = "cash"
       ELSE /\ lock' = "free"
            /\ fpc' = "error"
            /\ UNCHANGED holdings
    /\ UNCHANGED << clockVars, is_test, feedVars, cash, prices,
                    is_stopped_fill_update, frow, fills_delivered, mainLocal,
                    out, stop_applied >>

\* lines 125-126 and the end of the with block
fill_cash ==
    /\ fpc = "cash"
    /\ cash' = CashUpdate(cash, frow)
    /\ lock' = "free"
    /\ fpc' = "check"
    /\ UNCHANGED << clockVars, is_test, feedVars, holdings, prices,
                    is_stopped_fill_update, frow, fills_delivered, mainLocal,
                    out, stop_applied >>

fill_update ==
    \/ fill_check
    \/ fill_wait
    \/ fill_sleep
    \/ fill_holdings
    \/ fill_cash

\* fills whose holdings and cash updates are both done
AppliedCount ==
    IF fpc \in {"lock", "cash"}
    THEN Len(fills_delivered) - 1
    ELSE Len(fills_delivered)

\* ---------------------------------------------------------------- main thread
\* lines 77-79: the flag is lowered and the thread is started
start_fill_update ==
    /\ mpc = "start"
    /\ is_stopped_fill_update' = FALSE
    /\ fpc' = "check"
    /\ mpc' = "get_feed"
    /\ UNCHANGED << clockVars, is_test, feedVars, portfolioVars, lock, frow,
                    fills_delivered, prow, prices_delivered, price_checks,
                    report, out, stop_applied >>

\* a price loop that backs off on exhaustion in both modes
price_get_feed_sleeps ==
    /\ mpc = "get_feed"
    /\ IF prices_records = << >>
       THEN /\ mpc' = "sleep"
            /\ UNCHANGED << prices_records, prow >>
       ELSE /\ prow' = PopRow(prices_records)
            /\ prices_records' = PopRest(prices_records)
            /\ mpc' = "wait"
    /\ UNCHANGED << clockVars, is_test, fills_records, fills_input, prices_input,
                    portfolioVars, is_stopped_fill_update, lock, fillLocal,
                    prices_delivered, price_checks, report, out,
                    stop_applied >>

\* lines 169-178 with get_feed lines 41-44: IOError on an empty feed (break in
\* test mode, sleep otherwise) or the pop of the front row
price_get_feed ==
    /\ mpc = "get_feed"
    /\ IF prices_records = << >>
       THEN /\ mpc' = IF is_test THEN "stop" ELSE "sleep"
            /\ UNCHANGED << prices_records, prow >>
       ELSE /\ prow' = PopRow(prices_records)
            /\ prices_records' = PopRest(prices_records)
            /\ mpc' = "wait"
    /\ UNCHANGED << clockVars, is_test, fills_records, fills_input, prices_input,
                    portfolioVars, is_stopped_fill_update, lock, fillLocal,
                    prices_delivered, price_checks, report, out,
                    stop_applied >>

\* get_feed lines 45-47 in the price loop, and lines 180-182: the last price
\* is recorded as soon as the row is returned, before the lock is taken
price_wait ==
    /\ mpc = "wait"
    /\ Eligible(prow, now)
    /\ prices_delivered' = Append(prices_delivered, prow)
    /\ prices' = PricesUpdate(prices, prow)
    /\ mpc' = "lock"
    /\ UNCHANGED << clockVars, is_test, feedVars, cash, holdings,
                    is_stopped_fill_update, lock, fillLocal, prow,
                    price_checks, report, out, stop_applied >>

\* lines 174-176: time.sleep(5); continue
price_sleep ==
    /\ mpc = "sleep"
    /\ mpc' = "get_feed"
    /\ UNCHANGED << clockVars, is_test, feedVars, portfolioVars,
                    is_stopped_fill_update, lock, fillLocal, prow,
                    prices_delivered, price_checks, report, out,
                    stop_applied >>

\* lines 183-184: with self.lock, and if row['symbol'] in self._holdings;
\* when it is not, the with block ends at once
price_lock ==
    /\ mpc = "lock"
    /\ LockFree
    /\ LET held == prow.symbol \in DOMAIN holdings
       IN  /\ price_checks' = Append(price_checks,
                [row |-> prow, held |-> held,
                 size |-> IF held THEN holdings[prow.symbol] ELSE 0])
           /\ IF held
              THEN /\ mpc' = "print"
                   /\ lock' = "main"
              ELSE /\ mpc' = "get_feed"
                   /\ lock' = "free"
    /\ UNCHANGED << clockVars, is_test, feedVars, portfolioVars,
                    is_stopped_fill_update, fillLocal, prow, prices_delivered,
                    report, out, stop_applied >>

\* what lines 185-186 print: the warning of get_mtm, if any, then the PNL line
PrintedLines(row, h, p) ==
    LET pnl == get_pnl(h, p)
        line == PnlLine(TimestampMillis(row.timestamp), row.symbol,
                        h[row.symbol], pnl.value)
    IN  IF pnl.warning THEN << WarningLine, line >> ELSE << line >>

\* lines 185-186 and the end of the with block
price_print ==
    /\ mpc = "print"
    /\ out' = out \o PrintedLines(prow, holdings, prices)
    /\ lock' = "free"
    /\ mpc' = "get_feed"
    /\ UNCHANGED << clockVars, is_test, feedVars, portfolioVars,
                    is_stopped_fill_update, fillLocal, prow, prices_delivered,
                    price_checks, report, stop_applied >>

get_price_update ==
    \/ price_get_feed
    \/ price_wait
    \/ price_sleep
    \/ price_lock
    \/ price_print

\* a stop_fill_update that leaves the flag as it is
stop_fill_update_no_flag ==
    /\ mpc = "stop"
    /\ stop_applied' = AppliedCount
    /\ mpc' = IF is_test THEN "get_cash" ELSE "done"
    /\ UNCHANGED << clockVars, is_test, feedVars, portfolioVars, lock, fillLocal,
                    is_stopped_fill_update, prow, prices_delivered,
                    price_checks, report, out >>

\* line 86, called at line 224 (test_portfolio) or line 261 (__main__)
stop_fill_update ==
    /\ mpc = "stop"
    /\ is_stopped_fill_update' = TRUE
    /\ stop_applied' = AppliedCount
    /\ mpc' = IF is_test THEN "get_cash" ELSE "done"
    /\ UNCHANGED << clockVars, is_test, feedVars, portfolioVars, lock, fillLocal,
                    prow, prices_delivered, price_checks, report, out >>

\* line 226, first argument: portfolio.get_cash()
report_get_cash ==
    /\ mpc = "get_cash"
    /\ report' = Append(report, get_cash)
    /\ mpc' = "get_mtm"
    /\ UNCHANGED << clockVars, is_test, feedVars, portfolioVars,
                    is_stopped_fill_update, lock, fillLocal, prow,
                    prices_delivered, price_checks, out, stop_applied >>

\* line 226, second argument: portfolio.get_mtm()
report_get_mtm ==
    /\ mpc = "get_mtm"
    /\ LET m == get_mtm(holdings, prices)
       IN  /\ report' = Append(report, m.value)
           /\ out' = IF m.warning THEN Append(out, WarningLine) ELSE out
    /\ mpc' = "get_pnl"
    /\ UNCHANGED << clockVars, is_test, feedVars, portfolioVars,
                    is_stopped_fill_update, lock, fillLocal, prow,
                    prices_delivered, price_checks, stop_applied >>

\* line 226, third argument: portfolio.get_pnl()
report_get_pnl ==
    /\ mpc = "get_pnl"
    /\ LET m == get_pnl(holdings, prices)
       IN  /\ report' = Append(report, m.value)
           /\ out' = IF m.warning THEN Append(out, WarningLine) ELSE out
    /\ mpc' = "done"
    /\ UNCHANGED << clockVars, is_test, feedVars, portfolioVars,
                    is_stopped_fill_update, lock, fillLocal, prow,
                    prices_delivered, price_checks, stop_applied >>

\* line 226 of test_portfolio
test_report ==
    \/ report_get_cash
    \/ report_get_mtm
    \/ report_get_pnl

\* lines 256-260 of __main__: a KeyboardInterrupt anywhere in the try block
\* leaves the with block, if the main thread is in it, and goes to line 261
KeyboardInterrupt ==
    /\ ~is_test
    /\ mpc \in {"start", "get_feed", "wait", "sleep", "lock", "print"}
    /\ lock' = IF lock = "main" THEN "free" ELSE lock
    /\ mpc' = "stop"
    /\ UNCHANGED << clockVars, is_test, feedVars, portfolioVars,
                    is_stopped_fill_update, fillLocal, prow, prices_delivered,
                    price_checks, report, out, stop_applied >>

\* ---------------------------------------------------------------- specification
Next ==
    \/ Tick
    \/ fill_update
    \/ start_fill_update
    \/ get_price_update
    \/ stop_fill_update
    \/ test_report
    \/ KeyboardInterrupt

Spec == Init /\ [][Next]_vars

\* the threads are scheduled fairly and real time passes; an interrupt may
\* never come
FairSpec ==
    /\ LiveInit
    /\ [][Next]_vars
    /\ WF_vars(Tick)
    /\ WF_vars(fill_update)
    /\ WF_vars(start_fill_update)
    /\ WF_vars(get_price_update)
    /\ WF_vars(stop_fill_update)
    /\ WF_vars(test_report)

\* the two loops on fills feeds that may hold a fill with an unknown side
ErrInit == InitWith(ErrFillKinds, PriceKinds)

ErrSpec ==
    /\ ErrInit
    /\ [][Next]_vars
    /\ WF_vars(Tick)
    /\ WF_vars(fill_update)
    /\ WF_vars(start_fill_update)
    /\ WF_vars(get_price_update)
    /\ WF_vars(stop_fill_update)
    /\ WF_vars(test_report)

\* the Clock alone: every one_hr_as_sec the program uses, no feeds
ClockInit ==
    /\ InitPortfolio({}, {})
    /\ elapsed = 0
    /\ one_hr_as_sec \in {DefaultOneHrAsSec, MainOneHrAsSec, TestOneHrAsSec}
    /\ now = ClockTime(elapsed, one_hr_as_sec)

\* real time passes and Clock.time() is read
ClockRun ==
    /\ elapsed < MaxElapsed
    /\ ClockAdvance
    /\ UNCHANGED << is_test, feedVars, portfolioVars, is_stopped_fill_update,
                    lock, fillLocal, mainLocal, out, stop_applied >>

ClockSpec == ClockInit /\ [][ClockRun]_vars

\* ---------------------------------------------------------------- claims
Last(s) == s[Len(s)]

IsPrefix(s, t) ==
    /\ Len(s) <= Len(t)
    /\ \A i \in 1..Len(s) : s[i] = t[i]

\* the fill loop is over, or was never started
FillLoopEnded ==
    \/ fpc \in {"done", "error"}
    \/ fpc = "idle" /\ mpc # "start"

\* the price loop is over
PriceLoopEnded == mpc \in {"stop", "get_cash", "get_mtm", "get_pnl", "done"}

\* C1: get_feed never returns a row whose timestamp is greater than the
\* clock's time at the moment of the return, in either loop.
C1_ClockGate ==
    [][ /\ fills_delivered' # fills_delivered
            => Last(fills_delivered').timestamp <= now'
        /\ prices_delivered' # prices_delivered
            => Last(prices_delivered').timestamp <= now' ]_vars

\* a fill and a price that had to wait for the clock have both been returned
C1_Witness ==
    /\ \E i \in 1..Len(fills_delivered) : fills_delivered[i].timestamp >= 1
    /\ \E i \in 1..Len(prices_delivered) : prices_delivered[i].timestamp >= 1

\* every row of the feed that is due at time t is among the delivered rows
DueDelivered(input, delivered, t) ==
    \A i \in 1..Len(input) : input[i].timestamp <= t => i <= Len(delivered)

\* C2: the rows returned to each loop are a prefix of that loop's input feed
\* (nothing lost, repeated or reordered), and every row whose timestamp the
\* clock has reached is eventually returned unless its loop has ended: time
\* and again, all rows due by then have been returned.
C2_NoLossNoDupNoReorder ==
    /\ [](IsPrefix(fills_delivered, fills_input)
            /\ IsPrefix(prices_delivered, prices_input))
    /\ []<>(DueDelivered(fills_input, fills_delivered, now) \/ FillLoopEnded)
    /\ []<>(DueDelivered(prices_input, prices_delivered, now)
              \/ PriceLoopEnded)

\* both feeds have two different rows and both were returned whole, the later
\* rows after a wait for the clock
C2_Witness ==
    /\ Len(fills_input) = 2 /\ fills_input[1] # fills_input[2]
    /\ Len(prices_input) = 2 /\ prices_input[1] # prices_input[2]
    /\ fills_input[2].timestamp >= 1 /\ prices_input[2].timestamp >= 1
    /\ fills_delivered = fills_input
    /\ prices_delivered = prices_input

\* C3: get_feed removes the front row of a feed only if that row's timestamp
\* is <= the clock's time; a front row that is not yet eligible stays in place.
C3_PeekThenPop ==
    [][ /\ fills_records' # fills_records
            => Head(fills_records).timestamp <= now
        /\ prices_records' # prices_records
            => Head(prices_records).timestamp <= now ]_vars

\* C4: no call of get_feed has to wait for the clock: a loop is never inside
\* get_feed with a row whose timestamp the clock has not reached.
C4_NeverWaits ==
    /\ fpc = "wait" => frow.timestamp <= now
    /\ mpc = "wait" => prow.timestamp <= now

\* sum of sign * size over the fills of symbol s
RECURSIVE NetSize(_, _)
NetSize(seq, s) ==
    IF seq = << >> THEN 0
    ELSE (IF Head(seq).symbol # s THEN 0
          ELSE IF Head(seq).side = "B" THEN Head(seq).size
          ELSE 0 - Head(seq).size)
         + NetSize(Tail(seq), s)

\* sum of sign * size * price over the fills
RECURSIVE NetCost(_)
NetCost(seq) ==
    IF seq = << >> THEN 0
    ELSE (IF Head(seq).side = "B" THEN Head(seq).size * Head(seq).price
          ELSE 0 - Head(seq).size * Head(seq).price)
         + NetCost(Tail(seq))

FillSymbols(seq) == { seq[i].symbol : i \in 1..Len(seq) }

\* C5: cash is minus the sum of sign*size*price over the applied fills and
\* holdings[s] is the sum of sign*size over the applied fills of s, with an
\* entry exactly for the symbols that had a fill; between the two updates of
\* one fill, holdings already counts it and cash does not yet.
C5_FillApplication ==
    LET applied == SubSeq(fills_delivered, 1, AppliedCount)
        counted == IF fpc = "cash" THEN fills_delivered ELSE applied
    IN  /\ cash = 0 - NetCost(applied)
        /\ DOMAIN holdings = FillSymbols(counted)
        /\ \A s \in DOMAIN holdings : holdings[s] = NetSize(counted, s)

\* a buy followed by a sell of the same symbol, size and price has been
\* applied and has restored cash and the holding
C5_Witness ==
    /\ fpc = "check"
    /\ Len(fills_delivered) = 2
    /\ fills_delivered[1].side = "B" /\ fills_delivered[2].side = "S"
    /\ fills_delivered[1].symbol = fills_delivered[2].symbol
    /\ fills_delivered[1].size = fills_delivered[2].size
    /\ fills_delivered[1].price = fills_delivered[2].price
    /\ cash = 0
    /\ holdings[fills_delivered[1].symbol] = 0

\* sum of net size * last price over the symbols that have both
RECURSIVE MarkToMarket(_, _, _)
MarkToMarket(syms, seq, p) ==
    IF syms = {} THEN 0
    ELSE LET s == CHOOSE x \in syms : TRUE
         IN  (IF s \in FillSymbols(seq) /\ s \in DOMAIN p
              THEN NetSize(seq, s) * p[s] ELSE 0)
             + MarkToMarket(syms \ {s}, seq, p)

\* C6: every PNL line is computed from the state after exactly the first k
\* fills of the fills feed, for one k: its size is the net size of its symbol
\* and its pnl is the cash plus the mark-to-market value after those k fills.
C6_ReportConsistency ==
    [][ \A i \in (Len(out) + 1)..Len(out') :
          out'[i].tag = "PNL" =>
            \E k \in 0..Len(fills_input) :
              LET first == SubSeq(fills_input, 1, k)
              IN  /\ out'[i].symbol \in FillSymbols(first)
                  /\ out'[i].size = NetSize(first, out'[i].symbol)
                  /\ out'[i].pnl = MarkToMarket(Symbols, first, prices)
                                     - NetCost(first) ]_vars

\* a PNL line is about to be printed while the fill loop waits for the lock
\* with its next fill, and an earlier PNL line is already out
C6_Witness ==
    /\ mpc = "print"
    /\ lock = "main"
    /\ fpc = "lock"
    /\ Len(fills_delivered) = 2
    /\ \E i \in 1..Len(out) : out[i].tag = "PNL"

\* the two loops are not inside their with blocks at the same time
MutualExclusion ==
    /\ ~(fpc = "cash" /\ mpc = "print")
    /\ fpc = "cash" => lock = "fill"
    /\ mpc = "print" => lock = "main"

\* C7 as stated: cash, holdings and the last prices are each written only
\* while the writing loop holds the lock, and the loops exclude each other.
C7_AllUnderLock ==
    /\ []MutualExclusion
    /\ [][ /\ holdings' # holdings => lock = "free" /\ lock' = "fill"
           /\ cash' # cash => lock = "fill"
           /\ prices' # prices
                => lock = "main" \/ (lock = "free" /\ lock' = "main") ]_vars

\* C7: cash and holdings are written only while the fill loop holds the lock
\* (holdings in the step that enters the with block, cash before it is left)
\* and the two loops are never inside a with block at the same time; the last
\* prices are written by the price loop alone, before it takes the lock.
C7_LockDiscipline ==
    /\ []MutualExclusion
    /\ [][ /\ holdings' # holdings => lock = "free" /\ lock' = "fill"
           /\ cash' # cash => lock = "fill"
           /\ prices' # prices
                => mpc = "wait" /\ lock # "main" /\ lock' # "main" ]_vars

\* the fill loop is between its two writes, holding the lock, while the price
\* loop has recorded a price without the lock and now waits for it
C7_Witness ==
    /\ fpc = "cash"
    /\ lock = "fill"
    /\ mpc = "lock"
    /\ prow.symbol \in DOMAIN prices

\* some held symbol has no recorded price
MissingPrice == \E s \in DOMAIN holdings : s \notin DOMAIN prices

\* sum of holdings[s] * prices[s] over the held symbols that have a price
RECURSIVE PricedValue(_)
PricedValue(syms) ==
    IF syms = {} THEN 0
    ELSE LET s == CHOOSE x \in syms : TRUE
         IN  (IF s \in DOMAIN holdings /\ s \in DOMAIN prices
              THEN holdings[s] * prices[s] ELSE 0)
             + PricedValue(syms \ {s})

\* C8: every call of get_mtm (line 226 directly, lines 186 and 226 through
\* get_pnl) yields the sum of holdings[s]*prices[s] over exactly the held
\* symbols with a recorded price, completes, leaves cash, holdings and prices
\* unchanged, and prints the warning exactly when a held symbol has no price.
C8_MarkToMarket ==
    [][ /\ (mpc = "get_mtm" /\ mpc' # "get_mtm") =>
              /\ mpc' = "get_pnl"
              /\ Last(report') = PricedValue(Symbols)
              /\ out' = IF MissingPrice THEN Append(out, WarningLine) ELSE out
              /\ UNCHANGED portfolioVars
        /\ (mpc = "get_pnl" /\ mpc' # "get_pnl") =>
              /\ mpc' = "done"
              /\ Last(report') = cash + PricedValue(Symbols)
              /\ out' = IF MissingPrice THEN Append(out, WarningLine) ELSE out
              /\ UNCHANGED portfolioVars
        /\ (mpc = "print" /\ mpc' = "get_feed") =>
              /\ Len(out') = Len(out) + (IF MissingPrice THEN 2 ELSE 1)
              /\ MissingPrice => out'[Len(out) + 1] = WarningLine
              /\ Last(out').tag = "PNL"
              /\ Last(out').pnl = cash + PricedValue(Symbols)
              /\ UNCHANGED portfolioVars ]_vars

\* two symbols are held, only one of them has a price: the calls of line 226
\* have returned the value of that one and the warning was printed
C8_Witness ==
    /\ mpc = "done"
    /\ Len(report) = 3
    /\ DOMAIN holdings = {"A", "B"}
    /\ DOMAIN prices = {"A"}
    /\ report[2] = holdings["A"] * prices["A"]
    /\ report[2] # 0
    /\ \E i \in 1..Len(out) : out[i] = WarningLine

IsPnl(line) == line.tag = "PNL"

PnlLines == SelectSeq(out, IsPnl)

\* timestamp in milliseconds, symbol and size of each printed PNL line
PnlHeads ==
    [i \in 1..Len(PnlLines) |->
        [timestamp |-> PnlLines[i].timestamp, symbol |-> PnlLines[i].symbol,
         size |-> PnlLines[i].size]]

\* the lines due for the price rows that were found held under the lock
RECURSIVE DueHeads(_)
DueHeads(checks) ==
    IF checks = << >> THEN << >>
    ELSE LET c == checks[Len(checks)]
             rest == DueHeads(SubSeq(checks, 1, Len(checks) - 1))
         IN  IF c.held
             THEN Append(rest, [timestamp |-> c.row.timestamp * 1000,
                                symbol |-> c.row.symbol, size |-> c.size])
             ELSE rest

CheckedRows == [i \in 1..Len(price_checks) |-> price_checks[i].row]

StopRaised == stop_applied # -1

\* C10: once the stop flag is raised the fill loop completes at most the one
\* fill it was processing, an iteration that starts afterwards ends the loop
\* at its flag test, and the loop eventually is over.
C10_Cancellation ==
    /\ [](StopRaised => AppliedCount <= stop_applied + 1)
    /\ [][StopRaised /\ fpc = "check" => fpc' \in {"check", "done"}]_vars
    /\ StopRaised ~> FillLoopEnded

\* in production mode the flag was raised while a fill was in progress: that
\* fill was completed, the loop then ended, and a later fill is left unapplied
C10_Witness ==
    /\ ~is_test
    /\ StopRaised
    /\ fpc = "done"
    /\ AppliedCount = stop_applied + 1
    /\ fills_records # << >>

\* C16: one_hr_as_sec is the number of real seconds of one simulated hour:
\* after e real seconds the clock shows e*3600/one_hr_as_sec seconds after the
\* epoch, so 3600 is regular speed and 720 is 5 times regular speed.
C16_OneHrAsSec ==
    /\ (elapsed * 3600) % one_hr_as_sec = 0
         => now = (elapsed * 3600) \div one_hr_as_sec
    /\ one_hr_as_sec = 3600 => now = elapsed
    /\ one_hr_as_sec = 720 => now = 5 * elapsed

\* C11: with is_test set no loop ever sleeps on an exhausted feed; under fair
\* scheduling and an advancing clock the price loop and the fill loop both
\* end; and the price loop has ended only when every price record has been
\* delivered.
C11_BoundedTermination ==
    /\ [](is_test => fpc # "sleep" /\ mpc # "sleep")
    /\ [](is_test /\ PriceLoopEnded => prices_delivered = prices_input)
    /\ (is_test ~> (PriceLoopEnded /\ fpc = "done"))

\* both loops have ended in bounded mode after two price records, the fill
\* loop on its exhausted feed
C11_Witness ==
    /\ is_test
    /\ PriceLoopEnded
    /\ fpc = "done"
    /\ Len(prices_delivered) = 2
    /\ Len(fills_input) >= 1
    /\ fills_delivered = fills_input

\* C12: in production mode (is_test unset) a loop that finds its feed
\* exhausted goes to sleep and then retries from the start of its iteration,
\* with cash, holdings and prices unchanged by these steps; the fill loop
\* ends only when the stop flag is raised, and no step of the price loop
\* itself ends the price loop.
C12_ProductionRetry ==
    [][~is_test =>
        /\ (fpc = "check" /\ ~is_stopped_fill_update /\ fills_records = << >>
              /\ fpc' # fpc)
             => (fpc' = "sleep" /\ UNCHANGED << portfolioVars, feedVars >>)
        /\ (fpc = "sleep" /\ fpc' # fpc)
             => (fpc' = "check" /\ UNCHANGED << portfolioVars, feedVars >>)
        /\ (mpc = "get_feed" /\ prices_records = << >> /\ get_price_update)
             => (mpc' = "sleep" /\ UNCHANGED << portfolioVars, feedVars >>)
        /\ (mpc = "sleep" /\ get_price_update)
             => (mpc' = "get_feed" /\ UNCHANGED << portfolioVars, feedVars >>)
        /\ (fpc # "done" /\ fpc' = "done") => is_stopped_fill_update
        /\ get_price_update => ~PriceLoopEnded'
    ]_vars

\* production mode: both feeds were replayed in full and both loops are
\* backing off on their exhausted feeds, the stop flag not raised
C12_Witness ==
    /\ ~is_test
    /\ fpc = "sleep"
    /\ mpc = "sleep"
    /\ ~is_stopped_fill_update
    /\ Len(fills_delivered) = 2
    /\ Len(prices_delivered) = 2

\* C13: the stop flag is raised only after the price loop has ended, and
\* whenever the price loop has ended (on the exhausted feed in bounded mode,
\* on the interrupt in production mode) the flag is eventually raised and the
\* fill loop is eventually over: it does not keep running forever.
C13_OrderlyShutdown ==
    /\ [](mpc # "start" /\ is_stopped_fill_update => PriceLoopEnded)
    /\ (PriceLoopEnded ~> (is_stopped_fill_update /\ FillLoopEnded))

\* bounded mode: the price feed was replayed in full, then the flag was
\* raised and ended the fill loop before it had popped all of its feed
C13_Witness ==
    /\ is_test
    /\ Len(prices_delivered) = 2
    /\ is_stopped_fill_update
    /\ mpc = "done"
    /\ fpc = "done"
    /\ fills_records # << >>

\* C14: in bounded mode, when no fill is stamped later than the last price
\* record, once get_price_update has returned and stop_fill_update has been
\* called every fill of the fills feed is fully applied, and the values that
\* line 226 reads are cash = -sum(sign*size*price) over all fills, mtm = the
\* net holdings at the last prices, and pnl = cash + mtm.
C14_CompletedReplay ==
    ( /\ is_test
      /\ prices_input # << >>
      /\ \A i \in 1..Len(fills_input) :
            fills_input[i].timestamp <= Last(prices_input).timestamp
      /\ mpc \in {"get_cash", "get_mtm", "get_pnl", "done"} )
    => /\ AppliedCount = Len(fills_input)
       /\ Len(report) >= 1 => report[1] = 0 - NetCost(fills_input)
       /\ Len(report) >= 2
            => report[2] = MarkToMarket(Symbols, fills_input, prices)
       /\ Len(report) >= 3 => report[3] = report[1] + report[2]

\* C15: in bounded mode with an empty fills feed and a non-empty prices feed
\* the fill loop ends at its first get_feed without ever applying anything:
\* cash stays 0, holdings stays empty and no PNL line is printed; each price
\* record is delivered and its price recorded as the last price; and both
\* loops end, the price loop after the whole prices feed.
C15_EmptyFillsFeed ==
    LET empty == is_test /\ fills_input = << >> /\ prices_input # << >>
    IN  /\ [](empty => /\ fpc \in {"idle", "check", "done"}
                       /\ cash = 0
                       /\ holdings = << >>
                       /\ out = << >>
                       /\ fills_delivered = << >>)
        /\ [](empty /\ prices_delivered # << >> =>
                /\ Last(prices_delivered).symbol \in DOMAIN prices
                /\ prices[Last(prices_delivered).symbol]
                     = Last(prices_delivered).price)
        /\ [](empty /\ PriceLoopEnded => prices_delivered = prices_input)
        /\ (empty ~> (fpc = "done" /\ mpc = "done"))

\* the run is over with nothing held, nothing printed, two price records
\* delivered and the last price kept
C15_Witness ==
    /\ is_test
    /\ fills_input = << >>
    /\ Len(prices_delivered) = 2
    /\ fpc = "done"
    /\ mpc = "done"
    /\ holdings = << >>
    /\ out = << >>
    /\ DOMAIN prices = {"A"}
    /\ report = << 0, 0, 0 >>

\* C17: a loop that has ended, normally, on its exhausted feed, on the
\* interrupt or on an error raised while a fill was being applied, does not
\* hold the lock; and the price loop is not blocked by a fill loop that has
\* ended: again and again it has taken the lock for every price record of
\* its feed, unless it has ended itself.
C17_FailureIsolation ==
    /\ [](FillLoopEnded => lock # "fill")
    /\ [](PriceLoopEnded => lock # "main")
    /\ []<>(PriceLoopEnded \/ Len(price_checks) = Len(prices_input))

\* the fill loop has died on a fill with an unknown side; the price loop
\* has taken the lock after that and has price records left in its feed
C17_Witness ==
    /\ fpc = "error"
    /\ mpc = "print"
    /\ lock = "main"
    /\ prices_records # << >>

\* the PNL line shows the size of its symbol and the pnl after exactly the
\* first k fills of the fills feed, at the last prices p
LineFrom(line, k, p) ==
    LET first == SubSeq(fills_input, 1, k)
    IN  /\ line.symbol \in FillSymbols(first)
        /\ line.size = NetSize(first, line.symbol)
        /\ line.pnl = MarkToMarket(Symbols, first, p) - NetCost(first)

\* the PNL line is for a price update of the symbol and the timestamp of the
\* j-th fill of the fills feed
SameSymbolAndTime(line, j) ==
    /\ line.symbol = fills_input[j].symbol
    /\ line.timestamp = TimestampMillis(fills_input[j].timestamp)

LineBefore(line, j, p) == \E k \in 0..(j - 1) : LineFrom(line, k, p)
LineAfter(line, j, p) == \E k \in j..Len(fills_input) : LineFrom(line, k, p)

\* C18: a PNL line for a price update that has the symbol and the timestamp
\* of a fill is computed either from the holdings and cash before that fill
\* or from the holdings and cash after it, never from a state in between.
C18_BeforeOrAfter ==
    [][ \A i \in (Len(out) + 1)..Len(out') :
          out'[i].tag = "PNL" =>
            \A j \in 1..Len(fills_input) :
              SameSymbolAndTime(out'[i], j) =>
                \/ LineBefore(out'[i], j, prices)
                \/ LineAfter(out'[i], j, prices) ]_vars

\* both outcomes in one state: of two PNL lines for price updates with the
\* symbol and the timestamp of the same fill, one was computed before that
\* fill and not after it, the other after it and not before it
C18_Witness ==
    \E j \in 1..Len(fills_input) : \E a, b \in 1..Len(out) :
        /\ IsPnl(out[a]) /\ IsPnl(out[b])
        /\ SameSymbolAndTime(out[a], j) /\ SameSymbolAndTime(out[b], j)
        /\ LineBefore(out[a], j, prices) /\ ~LineAfter(out[a], j, prices)
        /\ LineAfter(out[b], j, prices) /\ ~LineBefore(out[b], j, prices)

\* the same price update seen from either side: the only PNL line was
\* computed before the fill of its symbol and timestamp
C18_ReachedBefore ==
    /\ Len(prices_input) = 1
    /\ Len(PnlLines) = 1
    /\ \E j \in 1..Len(fills_input) :
         /\ SameSymbolAndTime(PnlLines[1], j)
         /\ LineBefore(PnlLines[1], j, prices)
         /\ ~LineAfter(PnlLines[1], j, prices)

\* and here it was computed after that fill
C18_ReachedAfter ==
    /\ Len(prices_input) = 1
    /\ Len(PnlLines) = 1
    /\ \E j \in 1..Len(fills_input) :
         /\ SameSymbolAndTime(PnlLines[1], j)
         /\ LineAfter(PnlLines[1], j, prices)
         /\ ~LineBefore(PnlLines[1], j, prices)

\* C19: is_stopped_fill_update() returns True exactly when the fill loop is
\* not running: before start_fill_update and after the loop has ended for
\* any reason; and False exactly while the loop is running.
C19_FlagTellsStopped ==
    is_stopped_fill_update <=> fpc \in {"idle", "done", "error"}

\* the price loop goes on to print for a delivered row whose symbol is a key
\* of holdings, and the line it prints shows the size held, 0 when flat
LineEmitted ==
    /\ (mpc = "lock" /\ mpc' # "lock" /\ prow.symbol \in DOMAIN holdings)
         => mpc' = "print"
    /\ (mpc = "print" /\ mpc' # "print")
         => /\ Len(out') > Len(out)
            /\ IsPnl(Last(out'))
            /\ Last(out').symbol = prow.symbol
            /\ Last(out').timestamp = TimestampMillis(prow.timestamp)
            /\ Last(out').size = holdings[prow.symbol]

====
